---- MODULE Spec2Model ----
(***************************************************************************)
(* A model of biogeme's Database class (src/biogeme/database.py): the      *)
(* working / full copies of the dataset and of the panel individual map,   *)
(* panel activation, sampling without replacement, column append and row   *)
(* removal, the registries of draw generators, the draw table and split.   *)
(*                                                                         *)
(* A pandas DataFrame is a record [columns, rows]; a row is a record       *)
(* [idx, val] with idx its index label and val a function from column      *)
(* names to numbers.  Python's None is the empty tuple and any other value *)
(* v of an optional attribute is <<v>>.                                    *)
(***************************************************************************)
EXTENDS Integers, Sequences, FiniteSets, TLC

(***************************************************************************)
(* Bounds of the model.                                                    *)
(***************************************************************************)
MaxRows == 3
MaxId == 2
MaxDraws == 2
MaxNames == 2
MaxSlices == 3

None == <<>>
Some(v) == <<v>>
The(o) == o[1]

Range(s) == {s[i] : i \in 1..Len(s)}

SeqsUpTo(S, n) == UNION {[1..k -> S] : k \in 0..n}

(***************************************************************************)
(* Data frames.                                                            *)
(***************************************************************************)
Ids == 1..MaxId

IdColumn == "id"
NewColumn == "y"
RemoveColumn == "__bioRemove__"

MakeRow(i, id) == [idx |-> i, val |-> [c \in {IdColumn} |-> id]]

\* The frames a Database can be constructed from: one numeric column, no
\* missing value, index labels 0..N-1.
FrameOf(ids) ==
    [columns |-> <<IdColumn>>,
     rows |-> [i \in 1..Len(ids) |-> MakeRow(i - 1, ids[i])]]

InitialFrames == {FrameOf(ids) : ids \in SeqsUpTo(Ids, MaxRows)}

\* The panels of six and four observations used as examples of grouped and
\* ungrouped data.
ExampleFrames ==
    {FrameOf(<<1, 1, 2, 2, 2, 1>>), FrameOf(<<1, 1, 1, 2, 2, 2>>),
     FrameOf(<<2, 2, 1, 1>>)}

ColumnSet(frame) == Range(frame.columns)

NRows(frame) == Len(frame.rows)

\* The injective maps from 1..n into 1..m: the orders in which n of m rows
\* can be taken.
Arrangements(n, m) ==
    {f \in [1..n -> 1..m] : \A i, j \in 1..n : f[i] = f[j] => i = j}

TakeRows(frame, f) ==
    [columns |-> frame.columns,
     rows |-> [i \in 1..Len(f) |-> frame.rows[f[i]]]]

(***************************************************************************)
(* Expressions evaluated on a row (biogeme.expressions, used through       *)
(* setRow / getValue).                                                     *)
(***************************************************************************)
NumericExpr(c) == [kind |-> "Numeric", value |-> c, name |-> ""]
VariableExpr(n) == [kind |-> "Variable", value |-> 0, name |-> n]
EqExpr(n, c) == [kind |-> "Eq", value |-> c, name |-> n]

Expressions ==
    {NumericExpr(1), VariableExpr(IdColumn), EqExpr(IdColumn, 1)}

Eval(e, row) ==
    CASE e.kind = "Numeric" -> e.value
      [] e.kind = "Variable" -> row.val[e.name]
      [] OTHER -> IF row.val[e.name] = e.value THEN 1 ELSE 0


(***************************************************************************)
(* Dictionaries are functions on the set of all the keys of the model,     *)
(* with the value Absent for the keys that the dictionary does not hold.   *)
(***************************************************************************)
Absent == "absent"

EmptyDict(K) == [k \in K |-> Absent]

Keys(d) == {k \in DOMAIN d : d[k] # Absent}

\* dict.get(k): the value, or None (Absent) for a key that is not there
Get(d, k) == IF k \in DOMAIN d THEN d[k] ELSE Absent

(***************************************************************************)
(* Draw generators.  A generator is known by the name of its function and  *)
(* by the shape of the array that it returns for (sampleSize,              *)
(* numberOfDraws).  Two of the native generators are modelled; the user    *)
(* generators are one that returns the shape it is asked for and one that  *)
(* returns the transposed shape.                                           *)
(***************************************************************************)
NativeNames == {"UNIFORM", "UNIFORMSYM_ANTI"}
UserNames == {"LOGNORMAL", "EXP"}
UnknownName == "BOGUS"
TypeNames == NativeNames \cup UserNames \cup {UnknownName}
VarNames == {"a", "b"}

nativeRandomNumberGenerators ==
    [k \in TypeNames |->
        CASE k = "UNIFORM" -> "getUniform"
          [] k = "UNIFORMSYM_ANTI" -> "symm_uniform_antithetic"
          [] OTHER -> Absent]

\* The generator that a caller registers under a name.
GeneratorFor ==
    [k \in TypeNames |->
        CASE k = "EXP" -> "transposedDraws"
          [] k = UnknownName -> Absent
          [] OTHER -> "logNormalDraws"]

\* The shape of the array that a generator returns.
GeneratedShape(fn, sampleSize, nDraws) ==
    CASE fn = "symm_uniform_antithetic" -> <<sampleSize, 2 * (nDraws \div 2)>>
      [] fn = "transposedDraws" -> <<nDraws, sampleSize>>
      [] OTHER -> <<sampleSize, nDraws>>

(***************************************************************************)
(* The state of a Database object.  dataIsFull tells that self.data and    *)
(* self.fullData are one and the same DataFrame object, so that an         *)
(* in-place change of the one is a change of the other.  result is the     *)
(* outcome of the last call (what it returned or raised).  held.copy is the *)
(* working copy as it was before the first sampleWithoutReplacement call,  *)
(* and held.broken tells that addColumn, remove or panel was called since; *)
(* sampled tells that sampleWithoutReplacement was called at least once.   *)
(***************************************************************************)
VARIABLES data, fullData, dataIsFull, variables, excludedData,
          panelColumn, individualMap, fullIndividualMap,
          userRandomNumberGenerators, numberOfDraws, typesOfDraws, theDraws,
          result, held, sampled

dataVars == <<data, fullData, dataIsFull, variables, excludedData>>
panelVars == <<panelColumn, individualMap, fullIndividualMap>>
drawVars == <<userRandomNumberGenerators, numberOfDraws, typesOfDraws, theDraws>>
vars == <<dataVars, panelVars, drawVars, result, held, sampled>>

_generateHeaders(frame) == ColumnSet(frame)

InitFrom(frames) ==
    /\ data \in frames
    /\ fullData = Some(data)
    /\ dataIsFull = TRUE
    /\ variables = _generateHeaders(data)
    /\ excludedData = 0
    /\ panelColumn = None
    /\ individualMap = None
    /\ fullIndividualMap = None
    /\ userRandomNumberGenerators = EmptyDict(TypeNames)
    /\ numberOfDraws = 0
    /\ typesOfDraws = EmptyDict(VarNames)
    /\ theDraws = None
    /\ result = [op |-> "__init__", ok |-> TRUE]
    /\ held = [copy |-> None, broken |-> FALSE]
    /\ sampled = FALSE

Init == InitFrom(InitialFrames)

isPanel == panelColumn # None

\* The working copy of the current mode: the individual map (None when it
\* was never built) in panel mode, the dataset otherwise.
WorkingCopy == IF isPanel THEN individualMap ELSE Some(data)

FullCopy == IF isPanel THEN fullIndividualMap ELSE fullData

(***************************************************************************)
(* In-place changes of self.data reach self.fullData when both name the    *)
(* same object.                                                            *)
(***************************************************************************)
FullDataAfterInPlaceOfCopy(newData) == fullData

FullDataAfterInPlace(newData) == IF dataIsFull THEN Some(newData) ELSE fullData

(***************************************************************************)
(* Sampling without replacement and the return to the full sample.         *)
(***************************************************************************)
Rates == {<<1, 2>>, <<1, 1>>}

\* round(frac * n) as Python rounds: to the nearest integer, halves to even.
SampleCount(rate, n) ==
    LET p == rate[1] * n
        q == p \div rate[2]
        r == p % rate[2]
    IN  IF 2 * r < rate[2] THEN q
        ELSE IF 2 * r > rate[2] THEN q + 1
        ELSE IF q % 2 = 0 THEN q ELSE q + 1

\* DataFrame.sample(frac=rate): the frames made of round(rate * N) distinct
\* rows of the frame, in any order.
Sample(frame, rate) ==
    {TakeRows(frame, f) :
        f \in Arrangements(SampleCount(rate, NRows(frame)), NRows(frame))}

StructureModifiedOneSided(full, work) == ColumnSet(full) \ ColumnSet(work) # {}

StructureModified(full, work) == ColumnSet(full) # ColumnSet(work)

Disappeared(full, work) == ColumnSet(full) \ ColumnSet(work)

Added(full, work) == ColumnSet(work) \ ColumnSet(full)

HeldAtSampling ==
    IF held.copy = None THEN [held EXCEPT !.copy = Some(WorkingCopy)] ELSE held

HeldAtChange == IF held.copy = None THEN held ELSE [held EXCEPT !.broken = TRUE]

sampleWithoutReplacementPanel(rate) ==
    /\ isPanel
    /\ LET full == IF fullIndividualMap = None THEN individualMap
                   ELSE fullIndividualMap
       IN  IF full = None
           THEN \* None has no attribute sample
                /\ result' = [op |-> "sampleWithoutReplacement", ok |-> FALSE,
                              rate |-> rate, before |-> 0,
                              error |-> "AttributeError",
                              disappeared |-> {}, added |-> {}]
                /\ UNCHANGED <<individualMap, fullIndividualMap>>
           ELSE IF /\ fullIndividualMap # None
                   /\ StructureModified(The(fullIndividualMap), The(individualMap))
           THEN /\ result' = [op |-> "sampleWithoutReplacement", ok |-> FALSE,
                              rate |-> rate,
                              before |-> NRows(The(individualMap)),
                              error |-> "StructureModified",
                              disappeared |-> Disappeared(The(fullIndividualMap),
                                                          The(individualMap)),
                              added |-> Added(The(fullIndividualMap),
                                              The(individualMap))]
                /\ UNCHANGED <<individualMap, fullIndividualMap>>
           ELSE /\ fullIndividualMap' = full
                /\ \E s \in Sample(The(full), rate) : individualMap' = Some(s)
                /\ result' = [op |-> "sampleWithoutReplacement", ok |-> TRUE,
                              rate |-> rate,
                              before |-> NRows(The(individualMap)),
                              error |-> "", disappeared |-> {}, added |-> {}]
    /\ held' = HeldAtSampling
    /\ sampled' = TRUE
    /\ UNCHANGED <<dataVars, panelColumn, drawVars>>

sampleWithoutReplacementDataFromWorking(rate) ==
    /\ ~isPanel
    /\ IF fullData # None /\ StructureModified(The(fullData), data)
       THEN /\ result' = [op |-> "sampleWithoutReplacement", ok |-> FALSE,
                          rate |-> rate, before |-> NRows(data),
                          error |-> "StructureModified",
                          disappeared |-> Disappeared(The(fullData), data),
                          added |-> Added(The(fullData), data)]
            /\ UNCHANGED <<data, dataIsFull>>
       ELSE /\ \E s \in Sample(data, rate) : data' = s
            /\ dataIsFull' = FALSE
            /\ result' = [op |-> "sampleWithoutReplacement", ok |-> TRUE,
                          rate |-> rate, before |-> NRows(data),
                          error |-> "", disappeared |-> {}, added |-> {}]
    /\ held' = HeldAtSampling
    /\ sampled' = TRUE
    /\ UNCHANGED <<fullData, variables, excludedData, panelVars, drawVars>>

sampleWithoutReplacementData(rate) ==
    /\ ~isPanel
    /\ LET full == IF fullData = None THEN Some(data) ELSE fullData
       IN  IF fullData # None /\ StructureModified(The(fullData), data)
           THEN /\ result' = [op |-> "sampleWithoutReplacement", ok |-> FALSE,
                              rate |-> rate, before |-> NRows(data),
                              error |-> "StructureModified",
                              disappeared |-> Disappeared(The(fullData), data),
                              added |-> Added(The(fullData), data)]
                /\ UNCHANGED <<data, fullData, dataIsFull>>
           ELSE /\ fullData' = full
                /\ \E s \in Sample(The(full), rate) : data' = s
                /\ dataIsFull' = FALSE
                /\ result' = [op |-> "sampleWithoutReplacement", ok |-> TRUE,
                              rate |-> rate, before |-> NRows(data),
                              error |-> "", disappeared |-> {}, added |-> {}]
    /\ held' = HeldAtSampling
    /\ sampled' = TRUE
    /\ UNCHANGED <<variables, excludedData, panelVars, drawVars>>

sampleWithoutReplacement ==
    \E rate \in Rates :
        \/ sampleWithoutReplacementPanel(rate)
        \/ sampleWithoutReplacementData(rate)

useFullSampleKeepsSample ==
    /\ result' = [op |-> "useFullSample", ok |-> FullCopy # None]
    /\ UNCHANGED held
    /\ UNCHANGED <<dataVars, panelVars, drawVars, sampled>>

useFullSampleChecksData ==
    /\ IF fullData = None
       THEN /\ result' = [op |-> "useFullSample", ok |-> FALSE]
            /\ UNCHANGED <<individualMap, data, dataIsFull>>
       ELSE IF isPanel
            THEN /\ individualMap' = fullIndividualMap
                 /\ result' = [op |-> "useFullSample", ok |-> TRUE]
                 /\ UNCHANGED <<data, dataIsFull>>
            ELSE /\ data' = The(fullData)
                 /\ dataIsFull' = TRUE
                 /\ result' = [op |-> "useFullSample", ok |-> TRUE]
                 /\ UNCHANGED individualMap
    /\ UNCHANGED held
    /\ UNCHANGED <<fullData, variables, excludedData, panelColumn,
                   fullIndividualMap, drawVars, sampled>>

useFullSample ==
    /\ IF isPanel
       THEN IF fullIndividualMap = None
            THEN /\ result' = [op |-> "useFullSample", ok |-> FALSE]
                 /\ UNCHANGED <<individualMap, data, dataIsFull>>
            ELSE /\ individualMap' = fullIndividualMap
                 /\ result' = [op |-> "useFullSample", ok |-> TRUE]
                 /\ UNCHANGED <<data, dataIsFull>>
       ELSE IF fullData = None
            THEN /\ result' = [op |-> "useFullSample", ok |-> FALSE]
                 /\ UNCHANGED <<individualMap, data, dataIsFull>>
            ELSE /\ data' = The(fullData)
                 /\ dataIsFull' = TRUE
                 /\ result' = [op |-> "useFullSample", ok |-> TRUE]
                 /\ UNCHANGED individualMap
    /\ UNCHANGED held
    /\ UNCHANGED sampled
    /\ UNCHANGED <<fullData, variables, excludedData, panelColumn,
                   fullIndividualMap, drawVars>>

(***************************************************************************)
(* Appending a column and removing rows, both in place.                    *)
(***************************************************************************)
WithColumn(frame, e, column) ==
    [columns |-> Append(frame.columns, column),
     rows |-> [i \in 1..NRows(frame) |->
                 [idx |-> frame.rows[i].idx,
                  val |-> [c \in DOMAIN frame.rows[i].val \cup {column} |->
                             IF c = column THEN Eval(e, frame.rows[i])
                             ELSE frame.rows[i].val[c]]]]]

WithoutColumn(frame, column) ==
    [columns |-> SelectSeq(frame.columns, LAMBDA c : c # column),
     rows |-> [i \in 1..NRows(frame) |->
                 [idx |-> frame.rows[i].idx,
                  val |-> [c \in DOMAIN frame.rows[i].val \ {column} |->
                             frame.rows[i].val[c]]]]]

\* The index labels of the rows whose value in the column is not 0.
LabelsToRemove(frame, column) ==
    {frame.rows[i].idx : i \in {j \in 1..NRows(frame) :
                                   frame.rows[j].val[column] # 0}}

\* DataFrame.drop(labels): every row carrying one of the labels goes.
DropLabels(frame, labels) ==
    [columns |-> frame.columns,
     rows |-> SelectSeq(frame.rows, LAMBDA r : r.idx \notin labels)]

ColumnExists(frame, column) == column \in ColumnSet(frame)

\* DataFrame.apply(f, axis=1) on a frame without rows does not call f row by
\* row: depending on the expression it yields an empty series or a copy of
\* the frame, and assigning the latter to one column may raise.
ApplyOutcomes(frame) == IF NRows(frame) = 0 THEN {"series", "raise"} ELSE {"series"}

addColumnToOverwrites(e, column) ==
    /\ data' = WithColumn(data, e, column)
    /\ fullData' = FullDataAfterInPlace(data')
    /\ variables' = variables \cup {column}
    /\ result' = [op |-> "addColumn", ok |-> TRUE, error |-> "", column |-> column]

addColumnTo(e, column) ==
    IF ColumnExists(data, column)
    THEN /\ result' = [op |-> "addColumn", ok |-> FALSE, error |-> "ValueError",
                       column |-> column]
         /\ UNCHANGED <<data, fullData, variables>>
    ELSE \E outcome \in ApplyOutcomes(data) :
            IF outcome = "raise"
            THEN /\ result' = [op |-> "addColumn", ok |-> FALSE,
                               error |-> "apply", column |-> column]
                 /\ UNCHANGED <<data, fullData, variables>>
            ELSE /\ data' = WithColumn(data, e, column)
                 /\ fullData' = FullDataAfterInPlace(data')
                 /\ variables' = variables \cup {column}
                 /\ result' = [op |-> "addColumn", ok |-> TRUE, error |-> "",
                               column |-> column]

addColumn ==
    /\ \E e \in Expressions, column \in {IdColumn, NewColumn} :
          addColumnTo(e, column)
    /\ held' = HeldAtChange
    /\ UNCHANGED sampled
    /\ UNCHANGED <<dataIsFull, excludedData, panelVars, drawVars>>

remove ==
    /\ \E e \in Expressions :
          \* remove adds its column with addColumn, which raises as addColumn does
          IF ColumnExists(data, RemoveColumn)
          THEN /\ result' = [op |-> "remove", ok |-> FALSE, error |-> "ValueError"]
               /\ UNCHANGED <<data, fullData, variables, excludedData>>
          ELSE \E outcome \in ApplyOutcomes(data) :
                  IF outcome = "raise"
                  THEN /\ result' = [op |-> "remove", ok |-> FALSE,
                                     error |-> "apply"]
                       /\ UNCHANGED <<data, fullData, variables, excludedData>>
                  ELSE LET marked == WithColumn(data, e, RemoveColumn)
                           labels == LabelsToRemove(marked, RemoveColumn)
                       IN  /\ excludedData' = Cardinality(labels)
                           /\ data' = WithoutColumn(DropLabels(marked, labels),
                                                    RemoveColumn)
                           /\ fullData' = FullDataAfterInPlace(data')
                           /\ variables' = variables \cup {RemoveColumn}
                           /\ result' = [op |-> "remove", ok |-> TRUE,
                                         error |-> ""]
    /\ held' = HeldAtChange
    /\ UNCHANGED sampled
    /\ UNCHANGED <<dataIsFull, panelVars, drawVars>>

\* The factor of scaleColumn: it changes every value, and a second scaling
\* gives the first values back.
Scales == {-1}

Scaled(frame, column, scale) ==
    [columns |-> frame.columns,
     rows |-> [i \in 1..NRows(frame) |->
                 [idx |-> frame.rows[i].idx,
                  val |-> [c \in DOMAIN frame.rows[i].val |->
                             IF c = column THEN frame.rows[i].val[c] * scale
                             ELSE frame.rows[i].val[c]]]]]

scaleColumn ==
    /\ \E column \in {IdColumn, NewColumn}, scale \in Scales :
          IF ~ColumnExists(data, column)
          THEN /\ result' = [op |-> "scaleColumn", ok |-> FALSE,
                             error |-> "KeyError", column |-> column,
                             scale |-> scale]
               /\ UNCHANGED <<data, fullData>>
          ELSE /\ data' = Scaled(data, column, scale)
               /\ fullData' = FullDataAfterInPlace(data')
               /\ result' = [op |-> "scaleColumn", ok |-> TRUE, error |-> "",
                             column |-> column, scale |-> scale]
    /\ held' = HeldAtChange
    /\ UNCHANGED sampled
    /\ UNCHANGED <<dataIsFull, variables, excludedData, panelVars, drawVars>>

(***************************************************************************)
(* Panel data.                                                             *)
(***************************************************************************)
ColumnValues(frame, column) ==
    [i \in 1..NRows(frame) |-> frame.rows[i].val[column]]

\* biogeme.tools.countNumberOfGroups: the number of runs of consecutive
\* rows with the same value in the column.
countNumberOfGroups(frame, column) ==
    LET v == ColumnValues(frame, column)
    IN  Cardinality({i \in 1..Len(v) : i = 1 \/ v[i] # v[i - 1]})

\* DataFrame.sort_values(by=column): the orders of the rows that are
\* ascending in the column; the default sort is not stable, so rows with
\* the same value may come in any order.
SortOrders(frame, column) ==
    {f \in Permutations(1..NRows(frame)) :
        \A i, j \in 1..NRows(frame) :
            i < j => frame.rows[f[i]].val[column] <= frame.rows[f[j]].val[column]}

\* self.data.index = range(len(self.data.index))
Renumbered(frame) ==
    [columns |-> frame.columns,
     rows |-> [i \in 1..NRows(frame) |->
                 [idx |-> i - 1, val |-> frame.rows[i].val]]]

\* Series.unique(): the values in the order of their first appearance.
RECURSIVE Unique(_)
Unique(v) ==
    IF v = <<>> THEN <<>>
    ELSE LET front == Unique(SubSeq(v, 1, Len(v) - 1))
             last == v[Len(v)]
         IN  IF last \in Range(front) THEN front ELSE Append(front, last)

Min(S) == CHOOSE x \in S : \A y \in S : x <= y
Max(S) == CHOOSE x \in S : \A y \in S : x >= y

IndicesOf(frame, column, i) ==
    {frame.rows[k].idx : k \in {j \in 1..NRows(frame) :
                                   frame.rows[j].val[column] = i}}

MapRangeFirstOnly(frame, column, i) ==
    <<Min(IndicesOf(frame, column, i)), Min(IndicesOf(frame, column, i))>>

MapRange(frame, column, i) ==
    <<Min(IndicesOf(frame, column, i)), Max(IndicesOf(frame, column, i))>>

\* pd.DataFrame(local_map).T: one row per individual, labelled by the
\* identifier, with the first index in column 0 and the last in column 1; no
\* column at all when there is no individual.
PanelMap(frame, column) ==
    LET individuals == Unique(ColumnValues(frame, column))
    IN  [columns |-> IF individuals = <<>> THEN <<>> ELSE <<0, 1>>,
         rows |-> [k \in 1..Len(individuals) |->
                     [idx |-> individuals[k],
                      val |-> [c \in {0, 1} |->
                                 MapRange(frame, column, individuals[k])[c + 1]]]]]

NotConsecutiveFewer(nGroups, nIndividuals) == nGroups < nIndividuals

NotConsecutive(nGroups, nIndividuals) == nGroups # nIndividuals

panel ==
    /\ \E columnName \in {IdColumn, NewColumn} :
          /\ panelColumn' = Some(columnName)
          /\ IF ~ColumnExists(data, columnName)
             THEN /\ result' = [op |-> "panel", ok |-> FALSE, error |-> "KeyError",
                                column |-> columnName, nGroups |-> 0,
                                nIndividuals |-> 0]
                  /\ UNCHANGED <<data, dataIsFull, individualMap, fullIndividualMap>>
             ELSE \* panel and buildPanelMap sort the same data the same way
                  \E f \in SortOrders(data, columnName) :
                  \E sortedData \in {TakeRows(data, f)} :
                  \E nGroups \in {countNumberOfGroups(data, columnName)} :
                  \E nIndividuals \in {countNumberOfGroups(sortedData, columnName)} :
                      IF NotConsecutive(nGroups, nIndividuals)
                      THEN /\ result' = [op |-> "panel", ok |-> FALSE,
                                         error |-> "biogemeError",
                                         column |-> columnName,
                                         nGroups |-> nGroups,
                                         nIndividuals |-> nIndividuals]
                           /\ UNCHANGED <<data, dataIsFull, individualMap,
                                          fullIndividualMap>>
                      ELSE \* buildPanelMap
                           /\ data' = Renumbered(sortedData)
                           /\ dataIsFull' = FALSE
                           /\ individualMap' = Some(PanelMap(data', columnName))
                           /\ fullIndividualMap' = individualMap'
                           /\ result' = [op |-> "panel", ok |-> TRUE, error |-> "",
                                         column |-> columnName,
                                         nGroups |-> nGroups,
                                         nIndividuals |-> nIndividuals]
    /\ held' = HeldAtChange
    /\ UNCHANGED sampled
    /\ UNCHANGED <<fullData, variables, excludedData, drawVars>>

(***************************************************************************)
(* User-defined generators.                                                *)
(***************************************************************************)
\* The dictionaries passed to setRandomNumberGenerators: any set of native
\* and user names, each with its generator.
RngDicts ==
    {[k \in TypeNames |-> IF k \in K THEN GeneratorFor[k] ELSE Absent] :
        K \in SUBSET (NativeNames \cup UserNames)}

ReservedKeywordsIgnored(rng) == {}

ReservedKeywords(rng) == Keys(nativeRandomNumberGenerators) \cap Keys(rng)

setRandomNumberGeneratorsMerges ==
    /\ \E rng \in RngDicts :
          IF ReservedKeywords(rng) # {}
          THEN /\ result' = [op |-> "setRandomNumberGenerators", ok |-> FALSE,
                             rng |-> rng,
                             previous |-> Keys(userRandomNumberGenerators)]
               /\ UNCHANGED userRandomNumberGenerators
          ELSE /\ userRandomNumberGenerators' =
                    [k \in TypeNames |-> IF rng[k] # Absent THEN rng[k]
                                         ELSE userRandomNumberGenerators[k]]
               /\ result' = [op |-> "setRandomNumberGenerators", ok |-> TRUE,
                             rng |-> rng,
                             previous |-> Keys(userRandomNumberGenerators)]
    /\ UNCHANGED <<dataVars, panelVars, numberOfDraws, typesOfDraws, theDraws,
                   held, sampled>>

\* result.previous: the names that were registered before the call
setRandomNumberGenerators ==
    /\ \E rng \in RngDicts :
          IF ReservedKeywords(rng) # {}
          THEN /\ result' = [op |-> "setRandomNumberGenerators", ok |-> FALSE,
                             rng |-> rng,
                             previous |-> Keys(userRandomNumberGenerators)]
               /\ UNCHANGED userRandomNumberGenerators
          ELSE /\ userRandomNumberGenerators' = rng
               /\ result' = [op |-> "setRandomNumberGenerators", ok |-> TRUE,
                             rng |-> rng,
                             previous |-> Keys(userRandomNumberGenerators)]
    /\ UNCHANGED <<dataVars, panelVars, numberOfDraws, typesOfDraws, theDraws,
                   held, sampled>>

(***************************************************************************)
(* The table of draws.                                                     *)
(***************************************************************************)
\* getSampleSize(): None stands for the AttributeError raised in panel mode
\* when no individual map was built.
getSampleSize ==
    IF isPanel
    THEN IF individualMap = None THEN None ELSE Some(NRows(The(individualMap)))
    ELSE Some(NRows(data))

ResolveUserOnly(drawType) == Get(userRandomNumberGenerators, drawType)

\* The generator of a type of draws: the native ones first, then the user's.
Resolve(drawType) ==
    IF Get(nativeRandomNumberGenerators, drawType) # Absent
    THEN nativeRandomNumberGenerators[drawType]
    ELSE Get(userRandomNumberGenerators, drawType)

StepStatusShapeUnchecked(types, names, nDraws, i) ==
    LET drawType == types[names[i]]
    IN  IF drawType = Absent THEN "KeyError"
        ELSE IF Resolve(drawType) = Absent THEN "UnknownDrawType"
        ELSE IF getSampleSize = None THEN "AttributeError"
        ELSE "ok"

\* What happens to the variable names[i] in the loop of generateDraws.
StepStatus(types, names, nDraws, i) ==
    LET drawType == types[names[i]]
    IN  IF drawType = Absent THEN "KeyError"
        ELSE IF Resolve(drawType) = Absent THEN "UnknownDrawType"
        ELSE IF getSampleSize = None THEN "AttributeError"
        ELSE IF GeneratedShape(Resolve(drawType), The(getSampleSize), nDraws)
                  # <<The(getSampleSize), nDraws>>
             THEN "ShapeError"
             ELSE "ok"

\* The index of the first variable of the list on which the loop stops, or 0.
FirstFailure(types, names, nDraws) ==
    LET failing == {i \in 1..Len(names) :
                       StepStatus(types, names, nDraws, i) # "ok"}
    IN  IF failing = {} THEN 0 ELSE Min(failing)

\* The array returned for the i-th variable of the list: its entry (k, r) is
\* the r-th draw of individual k made by that call of the generator.
GeneratedArray(names, types, i, shape) ==
    [shape |-> shape,
     at |-> [x \in (1..shape[1]) \X (1..shape[2]) |->
               [call |-> i, name |-> names[i], drawType |-> types[names[i]],
                individual |-> x[1], draw |-> x[2]]]]

\* np.array(listOfDraws): the arrays stacked along a new first axis; an
\* empty list gives an array of one dimension and no element.
Stack(list) ==
    IF list = <<>> THEN [shape |-> <<0>>, at |-> <<>>]
    ELSE [shape |-> <<Len(list)>> \o list[1].shape,
          at |-> [x \in (1..Len(list)) \X (1..list[1].shape[1])
                            \X (1..list[1].shape[2]) |->
                    list[x[1]].at[<<x[2], x[3]>>]]]

\* np.moveaxis(a, 0, -1): the first axis becomes the last one.
MoveFirstAxisLast(a) ==
    IF Len(a.shape) = 1 THEN a
    ELSE [shape |-> <<a.shape[2], a.shape[3], a.shape[1]>>,
          at |-> [x \in (1..a.shape[2]) \X (1..a.shape[3]) \X (1..a.shape[1]) |->
                    a.at[<<x[3], x[1], x[2]>>]]]

\* The dictionaries of types passed to generateDraws: any type of draws, or
\* no entry, for each variable.
TypesDicts == [VarNames -> TypeNames \cup {Absent}]

generateDraws ==
    /\ \E types \in TypesDicts, names \in SeqsUpTo(VarNames, MaxNames),
          nDraws \in 1..MaxDraws :
          LET failure == FirstFailure(types, names, nDraws)
              status == IF failure = 0 THEN "ok"
                        ELSE StepStatus(types, names, nDraws, failure)
              \* the variables whose type was stored in typesOfDraws
              stored == IF failure = 0 THEN Len(names)
                        ELSE IF status = "KeyError" THEN failure - 1
                        ELSE failure
              \* the variables whose generator was called
              called == IF failure = 0 THEN Len(names)
                        ELSE IF status = "ShapeError" THEN failure
                        ELSE failure - 1
              storedNames == {names[i] : i \in 1..stored}
              drawType == IF failure = 0 THEN "" ELSE types[names[failure]]
          IN  /\ numberOfDraws' = nDraws
              /\ typesOfDraws' = [n \in VarNames |->
                                    IF n \in storedNames THEN types[n]
                                    ELSE typesOfDraws[n]]
              /\ IF failure = 0
                 THEN theDraws' =
                        Some(MoveFirstAxisLast(Stack(
                            [i \in 1..Len(names) |->
                                GeneratedArray(names, types, i,
                                    <<The(getSampleSize), nDraws>>)])))
                 ELSE UNCHANGED theDraws
              /\ result' =
                   [op |-> "generateDraws",
                    ok |-> failure = 0,
                    error |-> IF failure = 0 THEN "" ELSE status,
                    names |-> names,
                    drawTypes |-> [i \in 1..Len(names) |-> types[names[i]]],
                    failed |-> failure,
                    drawType |-> drawType,
                    native |-> IF status = "UnknownDrawType"
                               THEN Keys(nativeRandomNumberGenerators) ELSE {},
                    user |-> IF status = "UnknownDrawType"
                             THEN Keys(userRandomNumberGenerators) ELSE {},
                    expected |-> IF status = "ShapeError"
                                 THEN <<The(getSampleSize), nDraws>> ELSE <<>>,
                    actual |-> IF status = "ShapeError"
                               THEN GeneratedShape(Resolve(drawType),
                                                   The(getSampleSize), nDraws)
                               ELSE <<>>,
                    invoked |-> [i \in 1..called |-> names[i]],
                    returned |-> IF failure = 0 THEN theDraws' ELSE None]
    /\ UNCHANGED <<dataVars, panelVars, userRandomNumberGenerators, held, sampled>>

(***************************************************************************)
(* The native generators.  The sequences come from biogeme.draws; a number *)
(* of such a sequence is known by the function that made it and by its     *)
(* arguments, by its place (individual, draw) in the array that the        *)
(* function returned, and by what was done to it since: its sign and the   *)
(* normal transform.                                                       *)
(***************************************************************************)
RawArray(source, sampleSize, nDraws, symmetric, base, skip) ==
    [shape |-> <<sampleSize, nDraws>>,
     at |-> [x \in (1..sampleSize) \X (1..nDraws) |->
               [source |-> source, symmetric |-> symmetric, base |-> base,
                skip |-> skip, individual |-> x[1], draw |-> x[2],
                sign |-> 1, normal |-> FALSE]]]

getUniform(sampleSize, nDraws, symmetric) ==
    RawArray("getUniform", sampleSize, nDraws, symmetric, 0, 0)

getLatinHypercubeDraws(sampleSize, nDraws, symmetric) ==
    RawArray("getLatinHypercubeDraws", sampleSize, nDraws, symmetric, 0, 0)

getHaltonDraws(sampleSize, nDraws, symmetric, base, skip) ==
    RawArray("getHaltonDraws", sampleSize, nDraws, symmetric, base, skip)

\* getNormalWichuraDraws(..., uniformNumbers=unif, antithetic=False): the
\* normal transform of each of the uniform numbers.
getNormalWichuraDraws(sampleSize, nDraws, uniformNumbers) ==
    [shape |-> uniformNumbers.shape,
     at |-> [x \in DOMAIN uniformNumbers.at |->
               [uniformNumbers.at[x] EXCEPT !.normal = TRUE]]]

\* -localDraws
Negated(a) ==
    [shape |-> a.shape,
     at |-> [x \in DOMAIN a.at |-> [a.at[x] EXCEPT !.sign = -a.at[x].sign]]]

\* np.concatenate((a, b), axis=1) of two arrays with as many rows
ConcatenateDraws(a, b) ==
    [shape |-> <<a.shape[1], a.shape[2] + b.shape[2]>>,
     at |-> [x \in (1..a.shape[1]) \X (1..(a.shape[2] + b.shape[2])) |->
               IF x[2] <= a.shape[2] THEN a.at[x]
               ELSE b.at[<<x[1], x[2] - a.shape[2]>>]]]

symm_uniform(sampleSize, nDraws) ==
    getUniform(sampleSize, nDraws, TRUE)

symm_uniform_antithetic(sampleSize, nDraws) ==
    LET R == nDraws \div 2
        localDraws == symm_uniform(sampleSize, R)
    IN  ConcatenateDraws(localDraws, Negated(localDraws))

symm_MLHS(sampleSize, nDraws) ==
    getLatinHypercubeDraws(sampleSize, nDraws, TRUE)

symm_MLHS_anti(sampleSize, nDraws) ==
    LET R == nDraws \div 2
        localDraws == symm_MLHS(sampleSize, R)
    IN  ConcatenateDraws(localDraws, Negated(localDraws))

halton2(sampleSize, nDraws) ==
    getHaltonDraws(sampleSize, nDraws, FALSE, 2, 10)

halton3(sampleSize, nDraws) ==
    getHaltonDraws(sampleSize, nDraws, FALSE, 3, 10)

halton5(sampleSize, nDraws) ==
    getHaltonDraws(sampleSize, nDraws, FALSE, 5, 10)

normal_halton2(sampleSize, nDraws) ==
    LET unif == getHaltonDraws(sampleSize, nDraws, FALSE, 2, 10)
    IN  getNormalWichuraDraws(sampleSize, nDraws, unif)

normal_halton3(sampleSize, nDraws) ==
    LET unif == getHaltonDraws(sampleSize, nDraws, FALSE, 2, 10)
    IN  getNormalWichuraDraws(sampleSize, nDraws, unif)

normal_halton5(sampleSize, nDraws) ==
    LET unif == getHaltonDraws(sampleSize, nDraws, FALSE, 2, 10)
    IN  getNormalWichuraDraws(sampleSize, nDraws, unif)

\* The entries of the native registry that are modelled as functions.
NativeFunctionNames ==
    {"UNIFORMSYM_ANTI", "UNIFORMSYM_MLHS_ANTI",
     "UNIFORM_HALTON2", "UNIFORM_HALTON3", "UNIFORM_HALTON5",
     "NORMAL_HALTON2", "NORMAL_HALTON3", "NORMAL_HALTON5"}

NativeFunction(name, sampleSize, nDraws) ==
    CASE name = "UNIFORMSYM_ANTI" -> symm_uniform_antithetic(sampleSize, nDraws)
      [] name = "UNIFORMSYM_MLHS_ANTI" -> symm_MLHS_anti(sampleSize, nDraws)
      [] name = "UNIFORM_HALTON2" -> halton2(sampleSize, nDraws)
      [] name = "UNIFORM_HALTON3" -> halton3(sampleSize, nDraws)
      [] name = "UNIFORM_HALTON5" -> halton5(sampleSize, nDraws)
      [] name = "NORMAL_HALTON2" -> normal_halton2(sampleSize, nDraws)
      [] name = "NORMAL_HALTON3" -> normal_halton3(sampleSize, nDraws)
      [] name = "NORMAL_HALTON5" -> normal_halton5(sampleSize, nDraws)

\* theGenerator[0](sampleSize, nDraws) for a native generator, as
\* generateDraws calls it.
callNativeGenerator ==
    /\ \E name \in NativeFunctionNames, sampleSize \in 0..MaxRows,
          nDraws \in 1..(2 * MaxDraws) :
          result' = [op |-> "callNativeGenerator", ok |-> TRUE, name |-> name,
                     sampleSize |-> sampleSize, numberOfDraws |-> nDraws,
                     returned |-> NativeFunction(name, sampleSize, nDraws)]
    /\ UNCHANGED <<dataVars, panelVars, drawVars, held, sampled>>

(***************************************************************************)
(* Availability of the chosen alternative.  The availability conditions    *)
(* are a dictionary from alternatives to expressions: a function on the    *)
(* set of its keys.                                                        *)
(***************************************************************************)
Alternatives == 1..MaxId

AvailDicts == UNION {[K -> Expressions] : K \in SUBSET Alternatives}

functionToApplyMissingIsAvailable(avail, choice, row) ==
    LET chosen == Eval(choice, row)
    IN  IF chosen \notin DOMAIN avail THEN TRUE
        ELSE Eval(avail[chosen], row) # 0

\* The function applied to each row: False when the chosen alternative is
\* not a key (KeyError or IndexError), else whether its availability is
\* not 0.
functionToApply(avail, choice, row) ==
    LET chosen == Eval(choice, row)
    IN  IF chosen \notin DOMAIN avail THEN FALSE
        ELSE Eval(avail[chosen], row) # 0

checkAvailabilityOfChosenAlt ==
    /\ \E avail \in AvailDicts, choice \in Expressions :
          result' = [op |-> "checkAvailabilityOfChosenAlt", ok |-> TRUE,
                     avail |-> avail, choice |-> choice,
                     returned |-> [i \in 1..NRows(data) |->
                                     functionToApply(avail, choice, data.rows[i])]]
    /\ UNCHANGED <<dataVars, panelVars, drawVars, held, sampled>>

(***************************************************************************)
(* Estimation and validation sets.                                         *)
(***************************************************************************)
\* np.array_split: the first and the last position of slice i of k slices
\* of n rows; the first n % k slices have one row more than the others.
SliceFirst(n, k, i) ==
    (i - 1) * (n \div k) + (IF i - 1 < n % k THEN i - 1 ELSE n % k) + 1

SliceLast(n, k, i) == SliceFirst(n, k, i + 1) - 1

ArraySplit(frame, k) ==
    [i \in 1..k |->
        [columns |-> frame.columns,
         rows |-> SubSeq(frame.rows, SliceFirst(NRows(frame), k, i),
                         SliceLast(NRows(frame), k, i))]]

\* pd.concat(frames): the rows of the frames, one frame after the other.
RECURSIVE ConcatRows(_)
ConcatRows(frames) ==
    IF frames = <<>> THEN <<>>
    ELSE frames[1].rows \o ConcatRows(Tail(frames))

Concat(frames) == [columns |-> frames[1].columns, rows |-> ConcatRows(frames)]

AllBut(seq, i) == SubSeq(seq, 1, i - 1) \o SubSeq(seq, i + 1, Len(seq))

split ==
    /\ \E slices \in 1..MaxSlices :
       \E shuffled \in Sample(data, <<1, 1>>) :
       \E theSlices \in {ArraySplit(shuffled, slices)} :
          IF \E i \in 1..slices : AllBut(theSlices, i) = <<>>
          THEN \* pd.concat raises on an empty list of frames
               result' = [op |-> "split", ok |-> FALSE, slices |-> slices,
                          pairs |-> <<>>]
          ELSE result' = [op |-> "split", ok |-> TRUE, slices |-> slices,
                          pairs |-> [i \in 1..slices |->
                                       <<Concat(AllBut(theSlices, i)),
                                         theSlices[i]>>]]
    /\ UNCHANGED <<dataVars, panelVars, drawVars, held, sampled>>

(***************************************************************************)
(* Specifications.  SpecRestore: sampling and the return to the full       *)
(* sample in both modes, on data that rows were removed from.              *)
(* SpecDrift: sampling on a dataset that columns are appended to.          *)
(* SpecPanel: panel activation on every small dataset, on the example      *)
(* panels and on what remove and addColumn make of them.                   *)
(* SpecDraws: the registrations of generators and the panel activations    *)
(* that come before the first call of generateDraws, and that call.        *)
(* SpecRedraw: generateDraws called again and again, as long as it         *)
(* succeeds.                                                               *)
(* SpecPanelEdit: one panel activation, and then columns appended and      *)
(* scaled, rows removed, individuals sampled and the full sample taken     *)
(* back, in panel mode.                                                    *)
(* SpecGenerators: the native generators called on every small sample     *)
(* size and number of draws.                                               *)
(* SpecAvail: the check of the availability of the chosen alternative on   *)
(* every small dataset and on what remove leaves.                          *)
(* SpecEdit: a column appended or scaled or rows removed, before, between  *)
(* and after the sampling calls and the returns to the full sample, on     *)
(* data that is not panel.                                                 *)
(* SpecSplit: split on every small dataset and on what remove leaves.      *)
(***************************************************************************)
NextRestore ==
    \/ sampleWithoutReplacement
    \/ useFullSample
    \/ panel
    \/ remove

SpecRestore == Init /\ [][NextRestore]_vars

NextDrift ==
    \/ sampleWithoutReplacement
    \/ useFullSample
    \/ addColumn
    \/ panel

SpecDrift == Init /\ [][NextDrift]_vars

\* The datasets of 0..MaxRows rows, the last row being of another individual
\* than the rows before it: the table of draws depends on the data by the
\* sample size only.
DrawFrames ==
    {FrameOf([i \in 1..n |-> IF i < n THEN 1 ELSE MaxId]) : n \in 0..MaxRows}

InitDraws == InitFrom(DrawFrames)

InitPanel == InitFrom(InitialFrames \cup ExampleFrames)

NextPanel ==
    \/ panel
    \/ remove
    \/ addColumn

SpecPanel == InitPanel /\ [][NextPanel]_vars

\* numberOfDraws is 0 as long as generateDraws was not called.
NoDrawsYet == numberOfDraws = 0

RegisterBeforeDraws == NoDrawsYet /\ setRandomNumberGenerators

PanelBeforeDraws == NoDrawsYet /\ panel

FirstDraws == NoDrawsYet /\ generateDraws

NextDraws ==
    \/ RegisterBeforeDraws
    \/ PanelBeforeDraws
    \/ FirstDraws

SpecDraws == InitDraws /\ [][NextDraws]_vars

\* A generateDraws call that follows one that succeeded.
Redraw == result.op = "generateDraws" /\ result.ok /\ generateDraws

NextRedraw ==
    \/ FirstDraws
    \/ Redraw

SpecRedraw == InitDraws /\ [][NextRedraw]_vars

\* The database is panel and has its map of individuals.
InPanel == isPanel /\ individualMap # None

Activate == ~isPanel /\ panel

PanelAddColumn == InPanel /\ addColumn

PanelRemove == InPanel /\ remove

PanelScaleColumn == InPanel /\ scaleColumn

PanelSample == InPanel /\ \E rate \in Rates : sampleWithoutReplacementPanel(rate)

PanelFullSample == InPanel /\ useFullSample

NextPanelEdit ==
    \/ Activate
    \/ PanelAddColumn
    \/ PanelRemove
    \/ PanelScaleColumn
    \/ PanelSample
    \/ PanelFullSample

SpecPanelEdit == Init /\ [][NextPanelEdit]_vars

NextGenerators == callNativeGenerator

SpecGenerators == InitDraws /\ [][NextGenerators]_vars

NextAvail ==
    \/ checkAvailabilityOfChosenAlt
    \/ remove

SpecAvail == Init /\ [][NextAvail]_vars

SampleData == \E rate \in Rates : sampleWithoutReplacementData(rate)

\* The last call was not a change of the dataset in place.
Settled == result.op \in {"__init__", "sampleWithoutReplacement", "useFullSample"}

EditAddColumn == Settled /\ addColumn

EditRemove == Settled /\ remove

EditScaleColumn == Settled /\ scaleColumn

NextEdit ==
    \/ EditAddColumn
    \/ EditRemove
    \/ EditScaleColumn
    \/ SampleData
    \/ useFullSample

SpecEdit == InitDraws /\ [][NextEdit]_vars

NextSplit ==
    \/ split
    \/ remove

SpecSplit == Init /\ [][NextSplit]_vars

(***************************************************************************)
(* C1: after useFullSample, when the calls since the first                 *)
(* sampleWithoutReplacement call were all sampleWithoutReplacement or      *)
(* useFullSample calls, the working copy of the current mode (dataset, or  *)
(* individual map in panel mode) is row for row the copy held before that  *)
(* first sampling call.                                                    *)
(***************************************************************************)
C1_FullSampleRestored ==
    (result.op = "useFullSample" /\ held.copy # None /\ ~held.broken)
        => WorkingCopy = The(held.copy)

\* useFullSample has ended a run of sampling calls on a panel of two
\* individuals.
C1_Witness ==
    /\ result.op = "useFullSample"
    /\ result.ok
    /\ held.copy # None
    /\ ~held.broken
    /\ isPanel
    /\ individualMap # None
    /\ NRows(The(individualMap)) = 2

(***************************************************************************)
(* C2 as stated: in non-panel mode, once sampleWithoutReplacement has been *)
(* called, a sampleWithoutReplacement that follows a successful addColumn  *)
(* fails with the structure error listing the added column.                *)
(***************************************************************************)
C2_Original ==
    [][(/\ ~isPanel
        /\ sampled
        /\ result.op = "addColumn"
        /\ result.ok
        /\ result'.op = "sampleWithoutReplacement")
         => (/\ ~result'.ok
             /\ result'.error = "StructureModified"
             /\ result.column \in result'.added)]_vars

(***************************************************************************)
(* C2 amended: in non-panel mode, when the working dataset is a sample     *)
(* drawn by an earlier sampleWithoutReplacement (and not the full dataset  *)
(* itself, which it is again after useFullSample), a                       *)
(* sampleWithoutReplacement that follows a successful addColumn fails with *)
(* the structure error listing the added column; and the call succeeds     *)
(* whenever the full and working copies have the same set of columns.      *)
(***************************************************************************)
C2_StructureDrift ==
    [][(~isPanel /\ result'.op = "sampleWithoutReplacement")
         => (/\ (/\ sampled
                 /\ ~dataIsFull
                 /\ result.op = "addColumn"
                 /\ result.ok)
                  => (/\ ~result'.ok
                      /\ result'.error = "StructureModified"
                      /\ result.column \in result'.added)
             /\ (fullData # None /\ ColumnSet(The(fullData)) = ColumnSet(data))
                  => result'.ok)]_vars

\* A sampling call has failed on the column appended to a sample of at
\* least one row.
C2_Witness ==
    /\ result.op = "sampleWithoutReplacement"
    /\ result.error = "StructureModified"
    /\ result.added = {NewColumn}
    /\ ~dataIsFull
    /\ NRows(data) >= 1

(***************************************************************************)
(* C3: panel on an existing column fails exactly when the number of runs   *)
(* of equal consecutive values of the column differs from the number of    *)
(* distinct values of the column; the identifiers 1,1,2,2,2,1 fail, and    *)
(* 1,1,1,2,2,2 and 2,2,1,1 succeed.                                        *)
(***************************************************************************)
Runs(v) == Cardinality({i \in 1..Len(v) : i = 1 \/ v[i] # v[i - 1]})

C3_PanelFailsIffNotGrouped ==
    [][(result'.op = "panel" /\ ColumnExists(data, result'.column))
         => LET v == ColumnValues(data, result'.column)
            IN  /\ result'.ok <=> (Runs(v) = Cardinality(Range(v)))
                /\ v = <<1, 1, 2, 2, 2, 1>> => ~result'.ok
                /\ v \in {<<1, 1, 1, 2, 2, 2>>, <<2, 2, 1, 1>>} => result'.ok]_vars

\* panel has failed on the identifiers 1,1,2,2,2,1.
C3_Witness ==
    /\ result.op = "panel"
    /\ ~result.ok
    /\ result.error = "biogemeError"
    /\ result.column = IdColumn
    /\ ColumnValues(data, IdColumn) = <<1, 1, 2, 2, 2, 1>>

(***************************************************************************)
(* C4: after a successful panel, the individual map has one range per      *)
(* distinct identifier, the first range starts at row 0, each range starts *)
(* right after the previous one ends, the last one ends at row N-1, every  *)
(* row of a range carries the identifier of the range, and the ranges come *)
(* in the order in which the identifiers first appear in the sorted data.  *)
(***************************************************************************)
FirstPosition(v, x) == Min({i \in 1..Len(v) : v[i] = x})

MapIsPartition(map, frame, column) ==
    LET n == NRows(map)
        v == ColumnValues(frame, column)
        first(k) == map.rows[k].val[0]
        last(k) == map.rows[k].val[1]
    IN  /\ \A i \in 1..NRows(frame) : frame.rows[i].idx = i - 1
        /\ {map.rows[k].idx : k \in 1..n} = Range(v)
        /\ n = Cardinality(Range(v))
        /\ \A k \in 1..n : first(k) <= last(k)
        /\ n > 0 => first(1) = 0 /\ last(n) = NRows(frame) - 1
        /\ n = 0 => NRows(frame) = 0
        /\ \A k \in 1..(n - 1) : first(k + 1) = last(k) + 1
        /\ \A k \in 1..n : \A i \in first(k)..last(k) :
              v[i + 1] = map.rows[k].idx
        /\ \A k, l \in 1..n :
              k < l => FirstPosition(v, map.rows[k].idx)
                         < FirstPosition(v, map.rows[l].idx)

C4_MapIsPartition ==
    (result.op = "panel" /\ result.ok)
        => /\ individualMap # None
           /\ MapIsPartition(The(individualMap), data, The(panelColumn))

\* panel has succeeded on data that was not in ascending order and has
\* built a map of two individuals, the second of several rows.
C4_Witness ==
    /\ result.op = "panel"
    /\ result.ok
    /\ result.nGroups = 2
    /\ NRows(data) = 4
    /\ NRows(The(individualMap)) = 2
    /\ The(individualMap).rows[2].val[0] < The(individualMap).rows[2].val[1]

(***************************************************************************)
(* C10: useFullSample fails exactly when no full copy is saved for the     *)
(* current mode, and then changes nothing; otherwise it makes the working  *)
(* copy of the current mode the saved full copy and leaves the working     *)
(* copy of the other mode and both full copies as they were.               *)
(***************************************************************************)
C10_UseFullSample ==
    [][result'.op = "useFullSample"
         => /\ result'.ok <=> (FullCopy # None)
            /\ ~result'.ok => UNCHANGED <<dataVars, panelVars>>
            /\ result'.ok =>
                 /\ UNCHANGED <<panelColumn, fullData, fullIndividualMap>>
                 /\ WorkingCopy' = FullCopy
                 /\ IF isPanel THEN data' = data
                    ELSE individualMap' = individualMap]_vars

\* useFullSample has failed: panel mode was entered by a panel call that
\* failed before any individual map was built.
C10_Witness ==
    /\ result.op = "useFullSample"
    /\ ~result.ok
    /\ isPanel
    /\ fullIndividualMap = None
    /\ fullData # None

(***************************************************************************)
(* C5: no user-registered name is ever a native name; a call of            *)
(* setRandomNumberGenerators fails exactly when its dictionary holds a      *)
(* native name and then leaves the user registry as it was; a call that    *)
(* succeeds makes each name of its dictionary resolve to the generator      *)
(* given for it, and generateDraws never reports a registered name as an   *)
(* unknown type.                                                           *)
(***************************************************************************)
C5_NoCollision ==
    /\ [](Keys(userRandomNumberGenerators) \cap NativeNames = {})
    /\ [][/\ result'.op = "setRandomNumberGenerators"
             => /\ result'.ok <=> (Keys(result'.rng) \cap NativeNames = {})
                /\ ~result'.ok => UNCHANGED userRandomNumberGenerators
                /\ result'.ok =>
                     \A k \in Keys(result'.rng) : Resolve(k)' = result'.rng[k]
          /\ (result'.op = "generateDraws" /\ result'.error = "UnknownDrawType")
             => result'.drawType \notin Keys(userRandomNumberGenerators)]_vars

\* A dictionary with a native name and a user name was refused and the
\* generator registered before is still the only one.
C5_Witness ==
    /\ result.op = "setRandomNumberGenerators"
    /\ ~result.ok
    /\ "EXP" \in Keys(result.rng)
    /\ Keys(userRandomNumberGenerators) = {"LOGNORMAL"}

(***************************************************************************)
(* C6 as stated: a generateDraws call that succeeds returns a table of     *)
(* shape (sampleSize, numberOfDraws, number of listed variables) whose     *)
(* position j on the last axis holds the draws made for the j-th listed    *)
(* variable, whatever the number of listed variables.                      *)
(***************************************************************************)
TableIsOrdered(table, names, drawTypes) ==
    \A x \in DOMAIN table.at :
        /\ table.at[x].call = x[3]
        /\ table.at[x].name = names[x[3]]
        /\ table.at[x].drawType = drawTypes[x[3]]
        /\ table.at[x].individual = x[1]
        /\ table.at[x].draw = x[2]

C6_TableShape ==
    (result.op = "generateDraws" /\ result.ok /\ getSampleSize # None)
        => /\ The(result.returned).shape
                = <<The(getSampleSize), numberOfDraws, Len(result.names)>>
           /\ TableIsOrdered(The(result.returned), result.names, result.drawTypes)

(***************************************************************************)
(* C7: generateDraws fails whenever a listed variable has a type that is   *)
(* in neither registry; when the loop stops on such a variable the error   *)
(* names the variable and its type and carries the names of the native     *)
(* and of the user generators; no type held by the native registry, which  *)
(* is consulted first, is ever reported unknown.                           *)
(***************************************************************************)
IsUnknownType(t) ==
    /\ t # Absent
    /\ t \notin Keys(nativeRandomNumberGenerators)
    /\ t \notin Keys(userRandomNumberGenerators)

C7_UnknownDrawType ==
    result.op = "generateDraws"
        => /\ (\E i \in 1..Len(result.names) : IsUnknownType(result.drawTypes[i]))
                => ~result.ok
           /\ (result.failed > 0 /\ IsUnknownType(result.drawTypes[result.failed]))
                => /\ result.error = "UnknownDrawType"
                   /\ result.drawType = result.drawTypes[result.failed]
                   /\ result.native = Keys(nativeRandomNumberGenerators)
                   /\ result.user = Keys(userRandomNumberGenerators)
           /\ result.error = "UnknownDrawType"
                => IsUnknownType(result.drawTypes[result.failed])

\* The second listed variable has an unknown type and the error carries a
\* user registry that is not empty.
C7_Witness ==
    /\ result.op = "generateDraws"
    /\ result.error = "UnknownDrawType"
    /\ result.failed = 2
    /\ result.drawType = UnknownName
    /\ result.user = {"LOGNORMAL", "EXP"}

(***************************************************************************)
(* C8: when the generator of a listed variable returns an array of another *)
(* shape than (sampleSize, numberOfDraws), generateDraws fails with an      *)
(* error giving the variable, the expected and the actual shape, the       *)
(* generators of the later variables are not called and no table is        *)
(* returned; a call that succeeds got the exact shape from every           *)
(* generator.                                                              *)
(***************************************************************************)
HonoursShape(t) ==
    GeneratedShape(Resolve(t), The(getSampleSize), numberOfDraws)
        = <<The(getSampleSize), numberOfDraws>>

C8_ShapeError ==
    (result.op = "generateDraws" /\ getSampleSize # None)
        => /\ result.ok
                => \A i \in 1..Len(result.names) : HonoursShape(result.drawTypes[i])
           /\ (/\ result.failed > 0
               /\ result.drawTypes[result.failed] # Absent
               /\ Resolve(result.drawTypes[result.failed]) # Absent
               /\ ~HonoursShape(result.drawTypes[result.failed]))
                => /\ result.error = "ShapeError"
                   /\ result.expected = <<The(getSampleSize), numberOfDraws>>
                   /\ result.actual =
                        GeneratedShape(Resolve(result.drawTypes[result.failed]),
                                       The(getSampleSize), numberOfDraws)
                   /\ result.actual # result.expected
                   /\ result.invoked = SubSeq(result.names, 1, result.failed)
                   /\ result.returned = None
           /\ result.error = "ShapeError"
                => ~HonoursShape(result.drawTypes[result.failed])

\* The user generator of the first of two listed variables returned the
\* transposed shape and the generator of the second one was not called.
C8_Witness ==
    /\ result.op = "generateDraws"
    /\ result.error = "ShapeError"
    /\ Len(result.names) = 2
    /\ result.failed = 1
    /\ result.drawTypes[1] = "EXP"
    /\ result.invoked = <<result.names[1]>>
    /\ result.returned = None

(***************************************************************************)
(* C9 as stated: for every positive number of slices, split returns as     *)
(* many (estimation, validation) pairs; the validation sets are pairwise   *)
(* disjoint, their sizes differ by at most one and sum to the number of    *)
(* rows, their union is the set of all rows, and each estimation set is    *)
(* the complement of its validation set.                                   *)
(***************************************************************************)
Labels(frame) == {frame.rows[i].idx : i \in 1..NRows(frame)}

C9_Split ==
    result.op = "split"
        => /\ result.ok
           /\ Len(result.pairs) = result.slices
           /\ \A i \in 1..result.slices :
                LET estimation == result.pairs[i][1]
                    validation == result.pairs[i][2]
                IN  /\ Range(validation.rows) \subseteq Range(data.rows)
                    /\ Cardinality(Labels(validation)) = NRows(validation)
                    /\ Labels(estimation) = Labels(data) \ Labels(validation)
                    /\ Cardinality(Labels(estimation)) = NRows(estimation)
                    /\ Range(estimation.rows) \subseteq Range(data.rows)
                    /\ \A j \in 1..result.slices :
                          /\ i # j => Labels(validation)
                                        \cap Labels(result.pairs[j][2]) = {}
                          /\ NRows(validation) - NRows(result.pairs[j][2])
                                \in {-1, 0, 1}
           /\ UNION {Labels(result.pairs[i][2]) : i \in 1..result.slices}
                = Labels(data)

(***************************************************************************)
(* C11: addColumn raises ValueError exactly when the name is a column of   *)
(* the working dataset, and then the dataset, the full copy and the        *)
(* variable handles are as before.  With a new name the call succeeds on   *)
(* every dataset that has a row, and a call that succeeds appends the      *)
(* name as last column, holding on each row the value of the expression on *)
(* that row, adds the handle of that name and no other, and keeps the      *)
(* rows, their labels, their order and the values of the other columns.    *)
(***************************************************************************)
ColumnAppended(old, new, column) ==
    /\ new.columns = Append(old.columns, column)
    /\ NRows(new) = NRows(old)
    /\ \A i \in 1..NRows(old) :
          /\ new.rows[i].idx = old.rows[i].idx
          /\ \A c \in ColumnSet(old) : new.rows[i].val[c] = old.rows[i].val[c]
    /\ \E e \in Expressions :
          \A i \in 1..NRows(old) : new.rows[i].val[column] = Eval(e, old.rows[i])

C11_AddColumn ==
    [][result'.op = "addColumn"
         => /\ (result'.column \in ColumnSet(data))
                 <=> (~result'.ok /\ result'.error = "ValueError")
            /\ ~result'.ok => UNCHANGED <<data, fullData, variables>>
            /\ (result'.column \notin ColumnSet(data) /\ NRows(data) > 0)
                 => result'.ok
            /\ result'.ok
                 => /\ ColumnAppended(data, data', result'.column)
                    /\ variables' = variables \cup {result'.column}]_vars

\* A column appended to a sample of two rows is refused when it is appended
\* a second time, and is still there with its handle.
C11_Witness ==
    /\ result.op = "addColumn"
    /\ ~result.ok
    /\ result.error = "ValueError"
    /\ result.column = NewColumn
    /\ NewColumn \in variables
    /\ ~dataIsFull
    /\ NRows(data) = 2

(***************************************************************************)
(* C12: a sampleWithoutReplacement call that succeeds leaves the full copy *)
(* of the current mode (full dataset, or full individual map in panel      *)
(* mode) as it was and makes the working copy out of round(rate * size of  *)
(* the full copy) distinct rows of that full copy, whatever the working    *)
(* copy was before; in panel mode the dataset is untouched; and a          *)
(* sampling call that comes right after one that succeeded succeeds too.   *)
(***************************************************************************)
DrawnFrom(full, work, rate) ==
    /\ work.columns = full.columns
    /\ NRows(work) = SampleCount(rate, NRows(full))
    /\ Range(work.rows) \subseteq Range(full.rows)
    /\ Cardinality({work.rows[i].idx : i \in 1..NRows(work)}) = NRows(work)

C12_SampleFromFullCopy ==
    [][result'.op = "sampleWithoutReplacement"
         => /\ result'.ok
                 => /\ FullCopy # None
                    /\ FullCopy' = FullCopy
                    /\ DrawnFrom(The(FullCopy), The(WorkingCopy'), result'.rate)
                    /\ isPanel => UNCHANGED dataVars
            /\ (result.op = "sampleWithoutReplacement" /\ result.ok)
                 => result'.ok]_vars

\* A call at rate 1 on a working dataset of two sampled rows has drawn the
\* three rows of the full dataset.
C12_Witness ==
    /\ result.op = "sampleWithoutReplacement"
    /\ result.ok
    /\ ~isPanel
    /\ sampled
    /\ result.before = 2
    /\ NRows(data) = 3
    /\ NRows(The(fullData)) = 3

(***************************************************************************)
(* C13 as stated: a setRandomNumberGenerators call that succeeds changes   *)
(* only the entries that its dictionary names and keeps every other user   *)
(* entry, so that a name registered by an earlier call still resolves.     *)
(***************************************************************************)
C13_Original ==
    [][(result'.op = "setRandomNumberGenerators" /\ result'.ok)
         => \A k \in TypeNames :
               userRandomNumberGenerators'[k] =
                   IF result'.rng[k] # Absent THEN result'.rng[k]
                   ELSE userRandomNumberGenerators[k]]_vars

(***************************************************************************)
(* C13 amended: a setRandomNumberGenerators call that succeeds replaces    *)
(* the whole user registry by its dictionary: afterwards a user name       *)
(* resolves exactly when the dictionary of that call holds it, and         *)
(* generateDraws reports as unknown a user name that only an earlier call  *)
(* registered.                                                             *)
(***************************************************************************)
C13_RegistryReplaced ==
    [][/\ (result'.op = "setRandomNumberGenerators" /\ result'.ok)
            => /\ userRandomNumberGenerators' = result'.rng
               /\ \A k \in UserNames :
                     (Resolve(k)' # Absent) <=> (k \in Keys(result'.rng))
       /\ (/\ result'.op = "generateDraws"
           /\ result'.failed > 0
           /\ result'.drawType \in UserNames \ Keys(userRandomNumberGenerators))
            => result'.error = "UnknownDrawType"]_vars

\* LOGNORMAL was registered, and a call that registered EXP alone has left
\* EXP as the only user name.
C13_Witness ==
    /\ result.op = "setRandomNumberGenerators"
    /\ result.ok
    /\ result.previous = {"LOGNORMAL"}
    /\ Keys(result.rng) = {"EXP"}
    /\ Keys(userRandomNumberGenerators) = {"EXP"}

(***************************************************************************)
(* C14 as stated: after a generateDraws call that succeeds and follows     *)
(* another one that succeeded, the stored table is the table of the second *)
(* call, the stored number of draws is the number of draws of that table,  *)
(* and the stored map of types holds the variables listed in the second    *)
(* call, each with its type, and no other variable.                        *)
(***************************************************************************)
C14_Redraw ==
    [][(/\ result.op = "generateDraws"
        /\ result.ok
        /\ result'.op = "generateDraws"
        /\ result'.ok
        /\ result'.names # <<>>)
         => /\ theDraws' = result'.returned
            /\ The(theDraws').shape[3] = Len(result'.names)
            /\ numberOfDraws' = The(theDraws').shape[2]
            /\ \A i \in 1..Len(result'.names) :
                  typesOfDraws'[result'.names[i]] = result'.drawTypes[i]
            /\ Keys(typesOfDraws') = Range(result'.names)]_vars

(***************************************************************************)
(* C15 as stated: in panel mode, for every individual of the working map,  *)
(* each index from the first to the last of its range is the label of a    *)
(* row of the working dataset that carries the identifier of that          *)
(* individual, and every row of the working dataset that carries the       *)
(* identifier has its label inside the range.                              *)
(***************************************************************************)
RangeIsCurrent(frame, column, entry) ==
    /\ \A l \in entry.val[0]..entry.val[1] :
          \E i \in 1..NRows(frame) :
              /\ frame.rows[i].idx = l
              /\ frame.rows[i].val[column] = entry.idx
    /\ \A i \in 1..NRows(frame) :
          frame.rows[i].val[column] = entry.idx
              => frame.rows[i].idx \in entry.val[0]..entry.val[1]

C15_MapIsCurrent ==
    InPanel =>
        \A k \in 1..NRows(The(individualMap)) :
            RangeIsCurrent(data, The(panelColumn), The(individualMap).rows[k])

(***************************************************************************)
(* C16 as stated: for every sample size and every positive number of draws *)
(* n, UNIFORMSYM_ANTI and UNIFORMSYM_MLHS_ANTI return an array of shape    *)
(* (sample size, n), the shape that generateDraws accepts, made of a       *)
(* generated half followed along the axis of the draws by its pointwise    *)
(* negation.                                                               *)
(***************************************************************************)
IsHalfThenMirror(a) ==
    LET half == a.shape[2] \div 2
    IN  /\ a.shape[2] = 2 * half
        /\ \A k \in 1..a.shape[1], r \in 1..half :
              /\ a.at[<<k, r>>].sign = 1
              /\ a.at[<<k, half + r>>] = [a.at[<<k, r>>] EXCEPT !.sign = -1]

C16_Antithetic ==
    (/\ result.op = "callNativeGenerator"
     /\ result.name \in {"UNIFORMSYM_ANTI", "UNIFORMSYM_MLHS_ANTI"})
        => /\ result.returned.shape = <<result.sampleSize, result.numberOfDraws>>
           /\ IsHalfThenMirror(result.returned)

(***************************************************************************)
(* C17 as stated: for b in {2, 3, 5}, NORMAL_HALTONb returns the normal    *)
(* transform of the array that UNIFORM_HALTONb returns for the same sample *)
(* size and number of draws: the Halton sequence of base b, the first 10   *)
(* points skipped.                                                         *)
(***************************************************************************)
HaltonBaseOf ==
    [name \in {"NORMAL_HALTON2", "NORMAL_HALTON3", "NORMAL_HALTON5"} |->
        CASE name = "NORMAL_HALTON2" -> 2
          [] name = "NORMAL_HALTON3" -> 3
          [] name = "NORMAL_HALTON5" -> 5]

UniformHaltonName ==
    [name \in DOMAIN HaltonBaseOf |->
        CASE name = "NORMAL_HALTON2" -> "UNIFORM_HALTON2"
          [] name = "NORMAL_HALTON3" -> "UNIFORM_HALTON3"
          [] name = "NORMAL_HALTON5" -> "UNIFORM_HALTON5"]

C17_NormalHalton ==
    (result.op = "callNativeGenerator" /\ result.name \in DOMAIN HaltonBaseOf)
        => /\ result.returned =
                getNormalWichuraDraws(result.sampleSize, result.numberOfDraws,
                    NativeFunction(UniformHaltonName[result.name],
                                   result.sampleSize, result.numberOfDraws))
           /\ \A x \in DOMAIN result.returned.at :
                 /\ result.returned.at[x].base = HaltonBaseOf[result.name]
                 /\ result.returned.at[x].skip = 10
                 /\ result.returned.at[x].normal

(***************************************************************************)
(* C18: checkAvailabilityOfChosenAlt raises nothing and returns one        *)
(* boolean for each row of the working dataset, in the order of the rows:  *)
(* False for a row whose chosen alternative is not a key of the            *)
(* availability dictionary, and for any other row True exactly when the    *)
(* availability expression of the chosen alternative is not 0 on that row. *)
(***************************************************************************)
C18_ChosenAvailable ==
    result.op = "checkAvailabilityOfChosenAlt"
        => /\ result.ok
           /\ Len(result.returned) = NRows(data)
           /\ \A i \in 1..NRows(data) :
                 LET chosen == Eval(result.choice, data.rows[i])
                 IN  IF chosen \in DOMAIN result.avail
                     THEN result.returned[i]
                            <=> (Eval(result.avail[chosen], data.rows[i]) # 0)
                     ELSE ~result.returned[i]

\* Of three rows, one has a chosen alternative that is not a key and
\* another one has a chosen alternative that is a key and is not available.
C18_Witness ==
    /\ result.op = "checkAvailabilityOfChosenAlt"
    /\ result.ok
    /\ NRows(data) = 3
    /\ \E j, k \in 1..NRows(data) :
          /\ Eval(result.choice, data.rows[j]) \notin DOMAIN result.avail
          /\ ~result.returned[j]
          /\ Eval(result.choice, data.rows[k]) \in DOMAIN result.avail
          /\ ~result.returned[k]

(***************************************************************************)
(* C19 as stated: a panel call that fails leaves the database as it was:   *)
(* the same grouping column (none when the database was not panel), hence  *)
(* the same answer of isPanel and the same sample size, the same           *)
(* individual maps and the same dataset.                                   *)
(***************************************************************************)
C19_FailedPanel ==
    [][(result'.op = "panel" /\ ~result'.ok)
         => /\ isPanel' = isPanel
            /\ getSampleSize' = getSampleSize
            /\ UNCHANGED <<panelColumn, individualMap, fullIndividualMap>>
            /\ UNCHANGED <<data, fullData>>]_vars

C21_HandlesAreColumns == variables = ColumnSet(data)

(***************************************************************************)
(* C22 as stated: a generateDraws call that fails on an unknown type of    *)
(* draws or on the shape of what a generator returned leaves the stored    *)
(* table, the stored number of draws and the stored map of types as they   *)
(* were; hence, whenever a table is stored, the stored number of draws is  *)
(* the number of draws of the table and every type of the stored map is    *)
(* one that resolves to a generator.                                       *)
(***************************************************************************)
C22_FailedDraws ==
    /\ [][(/\ result'.op = "generateDraws"
           /\ result'.error \in {"UnknownDrawType", "ShapeError"})
            => UNCHANGED <<theDraws, numberOfDraws, typesOfDraws>>]_vars
    /\ []((theDraws # None /\ Len(The(theDraws).shape) = 3)
            => /\ numberOfDraws = The(theDraws).shape[2]
               /\ \A k \in Keys(typesOfDraws) :
                     Resolve(typesOfDraws[k]) # Absent)

====
